---- MODULE Spec2Model ----
(***************************************************************************)
(* A model of package routedb (routedb.go, route/Route.go,                 *)
(* route/GeoPoint.go): Load of an archive of GPX documents, the bounding   *)
(* box computed by Load, the Nearest scan, and Route(i) with the           *)
(* FlatBuffers record it builds and the generated accessors that read it   *)
(* back.                                                                   *)
(*                                                                         *)
(* Coordinates are integers counting tenths of a micro-degree (1e-7 deg),  *)
(* so that trkpt.Lat * 1e6 is the rational c / 10 and the conversion to    *)
(* int32 has a fractional part to drop.  Go slices are 0-based, TLA+       *)
(* sequences 1-based: Go's s[k] is s[k + 1] here.  Strings are sequences   *)
(* of one-character strings.                                               *)
(***************************************************************************)
EXTENDS Integers, Sequences, FiniteSets, TLC

VARIABLES archive, pc, db, err, res, mdIn, mdOut

vars == <<archive, pc, db, err, res, mdIn, mdOut>>

----------------------------------------------------------------------------
(* Bounds of the model *)

\* most entries in an archive
MaxRoutes == 2
\* most track points in one segment
MaxPts == 2
\* longest metadata string handed to split_md in SpecSplit
MaxStr == 4

----------------------------------------------------------------------------
(* Input data *)

Pt(lat, lon) == [Lat |-> lat, Lon |-> lon]

\* Stored track points, in tenths of a micro-degree.  The two points are
\* equidistant from the query (4,4); every coordinate has a fraction of
\* at least a half.
Points == {Pt(15, -6), Pt(-6, 15)}

\* Query coordinates given to Nearest.
Queries == {Pt(4, 4), Pt(-6, 15), Pt(20, 0)}

\* gpx.Metadata.Name of the documents of the archive: "k-o-a-b"
MdName == <<"k", "-", "o", "-", "a", "-", "b">>

Chars == {"k", "o", "-"}

Strs == UNION {[1..n -> Chars] : n \in 0..MaxStr}

PtSeqs == UNION {[1..n -> Points] : n \in 0..MaxPts}

Seg(pts) == [Trkpt |-> pts]

Trk(segs) == [Trkseg |-> segs]

Gpx(trks) == [Name |-> MdName, Trk |-> trks]

File(openOk, parseOk, doc) == [openOk |-> openOk, parseOk |-> parseOk, gpx |-> doc]

\* entries that Load accepts: one track holding one segment
GoodFiles == {File(TRUE, TRUE, Gpx(<<Trk(<<Seg(p)>>)>>)) : p \in PtSeqs}

OnePt == <<Pt(15, -6)>>

\* entries that Load rejects: unreadable, unparsable, 0 or 2 tracks,
\* 0 or 2 segments
BadFiles ==
    { File(FALSE, TRUE, Gpx(<<Trk(<<Seg(OnePt)>>)>>)),
      File(TRUE, FALSE, Gpx(<<Trk(<<Seg(OnePt)>>)>>)),
      File(TRUE, TRUE, Gpx(<<>>)),
      File(TRUE, TRUE, Gpx(<<Trk(<<Seg(OnePt)>>), Trk(<<Seg(OnePt)>>)>>)),
      File(TRUE, TRUE, Gpx(<<Trk(<<>>)>>)),
      File(TRUE, TRUE, Gpx(<<Trk(<<Seg(OnePt), Seg(OnePt)>>)>>)) }

Files == GoodFiles \cup BadFiles

\* the input bytes: either zip.NewReader fails on them, or they hold a
\* list of entries
Archives ==
    {[opens |-> TRUE, files |-> f] :
        f \in UNION {[1..n -> Files] : n \in 0..MaxRoutes}}
    \cup {[opens |-> FALSE, files |-> <<>>]}

----------------------------------------------------------------------------
(* Values *)

ZeroBox == [N |-> 0, E |-> 0, S |-> 0, W |-> 0]

NilDb == [nil |-> TRUE, routes |-> <<>>, bounds |-> ZeroBox]

NilStop == [nil |-> TRUE, Lat |-> 0, Lon |-> 0]

NilBuf == [nil |-> TRUE, Country |-> <<>>, City |-> <<>>, Name |-> <<>>, Path |-> <<>>]

NoRes ==
    [op |-> "none", lat |-> 0, lon |-> 0, i |-> 0, err |-> "nil",
     stop |-> NilStop, box |-> ZeroBox, n |-> 0, buf |-> NilBuf]

NoSplit == [called |-> FALSE, country |-> <<>>, city |-> <<>>, name |-> <<>>]

\* route.Trk[0].Trkseg[0].Trkpt
TrkptOf(route) == route.Trk[1].Trkseg[1].Trkpt

----------------------------------------------------------------------------
(* Load: ingestion *)

\* the mutated check of one entry: two tracks pass the track count
FileErrorSomeTrack(zf) ==
    IF ~zf.openOk THEN "read"
    ELSE IF ~zf.parseOk THEN "parse"
    ELSE IF Len(zf.gpx.Trk) < 1 THEN "tracks"
    ELSE IF Len(zf.gpx.Trk[1].Trkseg) /= 1 THEN "segments"
    ELSE "nil"

\* the checks of one entry in the loop of Load; "nil" when it is accepted
FileError(zf) ==
    IF ~zf.openOk THEN "read"
    ELSE IF ~zf.parseOk THEN "parse"
    ELSE IF Len(zf.gpx.Trk) /= 1 THEN "tracks"
    ELSE IF Len(zf.gpx.Trk[1].Trkseg) /= 1 THEN "segments"
    ELSE "nil"

RECURSIVE Ingest(_, _, _)
\* the loop over db.zip.File from entry k on, routes being db.routes so far
Ingest(files, k, routes) ==
    IF k > Len(files) THEN [err |-> "nil", routes |-> routes]
    ELSE IF FileError(files[k]) /= "nil"
         THEN [err |-> FileError(files[k]), routes |-> <<>>]
         ELSE Ingest(files, k + 1, Append(routes, files[k].gpx))

----------------------------------------------------------------------------
(* Load: bounds *)

\* the four comparisons applied to one point
Expand(b, pt) ==
    [N |-> IF pt.Lat > b.N THEN pt.Lat ELSE b.N,
     E |-> IF pt.Lon > b.E THEN pt.Lon ELSE b.E,
     S |-> IF pt.Lat < b.S THEN pt.Lat ELSE b.S,
     W |-> IF pt.Lon < b.W THEN pt.Lon ELSE b.W]

RECURSIVE ExpandPts(_, _, _)
\* the inner loop over the points of one route
ExpandPts(b, pts, k) ==
    IF k > Len(pts) THEN b ELSE ExpandPts(Expand(b, pts[k]), pts, k + 1)

RECURSIVE ExpandRoutes(_, _, _)
\* the outer loop over db.routes
ExpandRoutes(b, routes, r) ==
    IF r > Len(routes) THEN b
    ELSE ExpandRoutes(ExpandPts(b, TrkptOf(routes[r]), 1), routes, r + 1)

\* db.bounds as Load leaves it
ComputeBounds(routes) ==
    IF Len(routes) >= 1 /\ Len(TrkptOf(routes[1])) >= 1
    THEN LET pt0 == TrkptOf(routes[1])[1]
         IN ExpandRoutes([N |-> pt0.Lat, E |-> pt0.Lon, S |-> pt0.Lat, W |-> pt0.Lon],
                         routes, 1)
    ELSE ZeroBox

----------------------------------------------------------------------------
(* Nearest *)

\* minD := 1e10, a distance above every distance between two points (here
\* scaled down to fit the 32-bit integers of TLC)
MinDSentinel == 1000000000

\* p1.GreatCircleDistance(p2) of golang-geo: a symmetric, non-negative
\* distance, 0 between equal points.  Over the small area of the model the
\* order of great-circle distances is the order of the squared planar
\* distances, which is what is compared.
GreatCircleDistance(p1, p2) ==
    (p1.Lat - p2.Lat) * (p1.Lat - p2.Lat) + (p1.Lon - p2.Lon) * (p1.Lon - p2.Lon)

\* the state of the scan before the loops
NearestStartNoErr == [minD |-> MinDSentinel, stop |-> NilStop, err |-> "nil"]

NearestStart == [minD |-> MinDSentinel, stop |-> NilStop, err |-> "No stop found"]

\* the mutated loop body: a candidate at equal distance replaces the best
NearestStepLastWins(st, p1, trkpt) ==
    LET d == GreatCircleDistance(p1, trkpt)
    IN IF d <= st.minD
       THEN [minD |-> d,
             stop |-> [nil |-> FALSE, Lat |-> trkpt.Lat, Lon |-> trkpt.Lon],
             err |-> "nil"]
       ELSE st

\* the body of the inner loop of Nearest
NearestStep(st, p1, trkpt) ==
    LET d == GreatCircleDistance(p1, trkpt)
    IN IF d < st.minD
       THEN [minD |-> d,
             stop |-> [nil |-> FALSE, Lat |-> trkpt.Lat, Lon |-> trkpt.Lon],
             err |-> "nil"]
       ELSE st

RECURSIVE NearestPts(_, _, _, _)
NearestPts(st, p1, pts, k) ==
    IF k > Len(pts) THEN st
    ELSE NearestPts(NearestStep(st, p1, pts[k]), p1, pts, k + 1)

RECURSIVE NearestRoutes(_, _, _, _)
NearestRoutes(st, p1, routes, r) ==
    IF r > Len(routes) THEN st
    ELSE NearestRoutes(NearestPts(st, p1, TrkptOf(routes[r]), 1), p1, routes, r + 1)

\* what Nearest(lat, lon) returns on the routes: stop and err
NearestOf(routes, p1) == NearestRoutes(NearestStart, p1, routes, 1)

----------------------------------------------------------------------------
(* split_md *)

RECURSIVE Index(_, _)
\* strings.Index(s, "-") from position k on: the position of the first "-",
\* 0 when there is none
Index(s, k) ==
    IF k > Len(s) THEN 0 ELSE IF s[k] = "-" THEN k ELSE Index(s, k + 1)

RECURSIVE SplitEvery(_, _)
\* the mutated split: every separator splits, whatever n is
SplitEvery(s, n) ==
    LET p == Index(s, 1)
    IN IF p = 0 THEN <<s>>
       ELSE <<SubSeq(s, 1, p - 1)>> \o SplitEvery(SubSeq(s, p + 1, Len(s)), n)

RECURSIVE SplitN(_, _)
\* strings.SplitN(s, "-", n) for n > 0: at most n parts, the last one the
\* unsplit remainder
SplitN(s, n) ==
    LET p == Index(s, 1)
    IN IF n = 1 \/ p = 0 THEN <<s>>
       ELSE <<SubSeq(s, 1, p - 1)>> \o SplitN(SubSeq(s, p + 1, Len(s)), n - 1)

split_md(in) ==
    LET x == SplitN(in, 3)
    IN IF Len(x) = 3
       THEN [country |-> x[1], city |-> x[2], name |-> x[3]]
       ELSE [country |-> <<>>, city |-> <<>>, name |-> <<>>]

----------------------------------------------------------------------------
(* Route(i): the encoder *)

\* the mutated conversion: to the nearest integer, halves away from zero
RoundMicro(c) ==
    IF c >= 0 THEN (c + 5) \div 10 ELSE -((5 - c) \div 10)

\* int32(trkpt.Lat * 1e6) for a coordinate of c tenths of a micro-degree:
\* the conversion drops the fraction, towards zero
Int32Micro(c) ==
    IF c >= 0 THEN c \div 10 ELSE -((-c) \div 10)

\* The builder writes from the end of its buffer towards the front.  The
\* buffer is the sequence of its 32-bit words from the head on.
PrependInt32(b, x) == <<x>> \o b

CreateGeoPoint(b, lat, lon) == PrependInt32(PrependInt32(b, lon), lat)

\* b.EndVector(n): the element count goes in front of the elements
EndVector(b, n) == PrependInt32(b, n)

RECURSIVE PathLoopUp(_, _, _)
\* the mutated loop: j runs from 0 up
PathLoopUp(b, pts, j) ==
    IF j >= Len(pts) THEN b
    ELSE PathLoopUp(CreateGeoPoint(b, Int32Micro(pts[j + 1].Lat),
                                   Int32Micro(pts[j + 1].Lon)), pts, j + 1)

RECURSIVE PathLoop(_, _, _)
\* for j := len(Trkpt) - 1; j >= 0; j--
PathLoop(b, pts, j) ==
    IF j < 0 THEN b
    ELSE PathLoop(CreateGeoPoint(b, Int32Micro(pts[j + 1].Lat),
                                 Int32Micro(pts[j + 1].Lon)), pts, j - 1)

PathVectorUp(pts) == EndVector(PathLoopUp(<<>>, pts, 0), Len(pts))

\* RouteStartPathVector .. EndVector: the words of the path vector
PathVector(pts) == EndVector(PathLoop(<<>>, pts, Len(pts) - 1), Len(pts))

\* what Route(i) does: a panic on the index expression, or buf and err
RouteOf(d, i) ==
    IF i >= Len(d.routes)
    THEN [panic |-> FALSE, err |-> "out of range", buf |-> NilBuf]
    ELSE IF i < 0
    THEN [panic |-> TRUE, err |-> "nil", buf |-> NilBuf]
    ELSE LET gpx == d.routes[i + 1]
             md == split_md(gpx.Name)
         IN [panic |-> FALSE, err |-> "nil",
             buf |-> [nil |-> FALSE, Country |-> md.country, City |-> md.city,
                      Name |-> md.name, Path |-> PathVector(TrkptOf(gpx))]]

----------------------------------------------------------------------------
(* The generated accessors *)

\* rcv._tab.VectorLen(o): the word in front of the elements
PathLength(buf) == buf.Path[1]

\* Route.Path(obj, j): the position obj is set to, Vector(o) + j * 8 bytes
Path(buf, j) == 2 + j * 2

\* GeoPoint.Lat(): the word at Pos + 0
Lat(buf, pos) == buf.Path[pos]

\* GeoPoint.Lon(): the word at Pos + 4 bytes
Lon(buf, pos) == buf.Path[pos + 1]

----------------------------------------------------------------------------
(* Operations *)

Init ==
    /\ archive \in Archives
    /\ pc = "start"
    /\ db = NilDb
    /\ err = "nil"
    /\ res = NoRes
    /\ mdIn = <<>>
    /\ mdOut = NoSplit

\* Load(in).  When zip.NewReader fails db.zip is nil and the range over
\* db.zip.File dereferences it: the call panics instead of returning.
Load ==
    /\ pc = "start"
    /\ IF ~archive.opens
       THEN /\ pc' = "panic"
            /\ db' = NilDb
            /\ err' = "nil"
       ELSE LET r == Ingest(archive.files, 1, <<>>)
            IN IF r.err /= "nil"
               THEN /\ pc' = "failed"
                    /\ db' = NilDb
                    /\ err' = r.err
               ELSE /\ pc' = "loaded"
                    /\ db' = [nil |-> FALSE, routes |-> r.routes,
                              bounds |-> ComputeBounds(r.routes)]
                    /\ err' = "nil"
    /\ UNCHANGED <<archive, res, mdIn, mdOut>>

\* a mutated Nearest that widens the stored box by the query point
NearestWidening(q) ==
    /\ pc = "loaded"
    /\ LET r == NearestOf(db.routes, q)
       IN res' = [NoRes EXCEPT !.op = "Nearest", !.lat = q.Lat, !.lon = q.Lon,
                               !.err = r.err, !.stop = r.stop]
    /\ db' = [db EXCEPT !.bounds = Expand(@, q)]
    /\ UNCHANGED <<archive, pc, err, mdIn, mdOut>>

Nearest(q) ==
    /\ pc = "loaded"
    /\ LET r == NearestOf(db.routes, q)
       IN res' = [NoRes EXCEPT !.op = "Nearest", !.lat = q.Lat, !.lon = q.Lon,
                               !.err = r.err, !.stop = r.stop]
    /\ UNCHANGED <<archive, pc, db, err, mdIn, mdOut>>

Bounds ==
    /\ pc = "loaded"
    /\ res' = [NoRes EXCEPT !.op = "Bounds", !.box = db.bounds]
    /\ UNCHANGED <<archive, pc, db, err, mdIn, mdOut>>

Routes ==
    /\ pc = "loaded"
    /\ res' = [NoRes EXCEPT !.op = "Routes", !.n = Len(db.routes)]
    /\ UNCHANGED <<archive, pc, db, err, mdIn, mdOut>>

Route(i) ==
    /\ pc = "loaded"
    /\ LET r == RouteOf(db, i)
       IN /\ res' = [NoRes EXCEPT !.op = "Route", !.i = i, !.err = r.err,
                                  !.buf = r.buf]
          /\ pc' = IF r.panic THEN "panic" ELSE pc
    /\ UNCHANGED <<archive, db, err, mdIn, mdOut>>

\* the indexes Route is called with
Indexes == -2..(MaxRoutes + 1)

Next ==
    \/ Load
    \/ \E q \in Queries : Nearest(q)
    \/ Bounds
    \/ Routes
    \/ \E i \in Indexes : Route(i)

Spec == Init /\ [][Next]_vars

----------------------------------------------------------------------------
(* split_md as a function of every short string *)

InitSplit ==
    /\ archive = [opens |-> TRUE, files |-> <<>>]
    /\ pc = "split"
    /\ db = NilDb
    /\ err = "nil"
    /\ res = NoRes
    /\ mdIn \in Strs
    /\ mdOut = NoSplit

SplitCall ==
    /\ pc = "split"
    /\ ~mdOut.called
    /\ LET md == split_md(mdIn)
       IN mdOut' = [called |-> TRUE, country |-> md.country, city |-> md.city,
                    name |-> md.name]
    /\ UNCHANGED <<archive, pc, db, err, res, mdIn>>

NextSplit == SplitCall

SpecSplit == InitSplit /\ [][NextSplit]_vars

----------------------------------------------------------------------------
(* Properties *)

RECURSIVE AllPts(_)
\* every point of every route, in route order then point order
AllPts(routes) ==
    IF routes = <<>> THEN <<>>
    ELSE TrkptOf(Head(routes)) \o AllPts(Tail(routes))

SetMax(S) == CHOOSE x \in S : \A y \in S : y <= x

SetMin(S) == CHOOSE x \in S : \A y \in S : x <= y

Lats(pts) == {pts[k].Lat : k \in 1..Len(pts)}

Lons(pts) == {pts[k].Lon : k \in 1..Len(pts)}

\* C1: after a successful Load the box is the zero box when no route has a
\* point, and otherwise N/S are the largest/smallest latitude and E/W the
\* largest/smallest longitude over every point of every route.
C1_BoundsCoverEveryPoint ==
    pc = "loaded" =>
        LET pts == AllPts(db.routes)
        IN IF pts = <<>> THEN db.bounds = ZeroBox
           ELSE /\ db.bounds.N = SetMax(Lats(pts))
                /\ db.bounds.S = SetMin(Lats(pts))
                /\ db.bounds.E = SetMax(Lons(pts))
                /\ db.bounds.W = SetMin(Lons(pts))

\* C2: on a database with at least one point Nearest returns a nil error and
\* the stored coordinates of the first point, in scan order, whose distance
\* to the query is the least over all points.
C2_NearestFirstMinimum ==
    (res.op = "Nearest" /\ AllPts(db.routes) /= <<>>) =>
        LET pts == AllPts(db.routes)
            q == Pt(res.lat, res.lon)
        IN /\ res.err = "nil"
           /\ ~res.stop.nil
           /\ \E k \in 1..Len(pts) :
                /\ res.stop.Lat = pts[k].Lat
                /\ res.stop.Lon = pts[k].Lon
                /\ \A j \in 1..Len(pts) :
                     GreatCircleDistance(q, pts[k]) <= GreatCircleDistance(q, pts[j])
                /\ \A j \in 1..(k - 1) :
                     GreatCircleDistance(q, pts[j]) > GreatCircleDistance(q, pts[k])

\* C2 witness: two different points tie for the least distance and the
\* earlier one was returned
C2_TieSeen ==
    /\ res.op = "Nearest"
    /\ LET pts == AllPts(db.routes)
           q == Pt(res.lat, res.lon)
       IN /\ Len(pts) >= 2
          /\ pts[1] /= pts[2]
          /\ GreatCircleDistance(q, pts[1]) = GreatCircleDistance(q, pts[2])
          /\ \A j \in 1..Len(pts) :
               GreatCircleDistance(q, pts[1]) <= GreatCircleDistance(q, pts[j])
          /\ res.stop = [nil |-> FALSE, Lat |-> pts[1].Lat, Lon |-> pts[1].Lon]

\* C3: Route(i) returns the out-of-range error and no record, without
\* crashing, for every i outside 0 <= i < Routes(), and a record with a nil
\* error for every i inside.
C3_RouteIndexChecked ==
    res.op = "Route" =>
        /\ pc /= "panic"
        /\ IF 0 <= res.i /\ res.i < Len(db.routes)
           THEN res.err = "nil" /\ ~res.buf.nil
           ELSE res.err = "out of range" /\ res.buf.nil

\* C4: when the input cannot be opened as an archive, Load ends by returning
\* an error; it does not end in a panic.
C4_UnopenableArchiveReturnsError ==
    (~archive.opens /\ pc /= "start") => (pc = "failed" /\ err /= "nil" /\ db.nil)

\* an entry that cannot be read or decoded, or whose document has not
\* exactly one track with exactly one segment
Rejected(zf) ==
    \/ ~zf.openOk
    \/ ~zf.parseOk
    \/ Len(zf.gpx.Trk) /= 1
    \/ \E t \in 1..Len(zf.gpx.Trk) : Len(zf.gpx.Trk[t].Trkseg) /= 1

\* C5: Load of an archive with a rejected entry in any position returns an
\* error and no database, and every route of a database Load returned has
\* exactly one track with exactly one segment.
C5_LoadAllOrNothing ==
    /\ (pc /= "start" /\ archive.opens
          /\ \E k \in 1..Len(archive.files) : Rejected(archive.files[k]))
         => (pc = "failed" /\ err /= "nil" /\ db.nil)
    /\ pc = "loaded" =>
         \A r \in 1..Len(db.routes) :
            /\ Len(db.routes[r].Trk) = 1
            /\ Len(db.routes[r].Trk[1].Trkseg) = 1

\* C5 witness: a valid entry with points is followed by a rejected one and
\* the load failed
C5_LateRejection ==
    /\ pc = "failed"
    /\ db.nil
    /\ Len(archive.files) = 2
    /\ ~Rejected(archive.files[1])
    /\ TrkptOf(archive.files[1].gpx) /= <<>>
    /\ Len(archive.files[2].gpx.Trk) = 2

\* C6: Nearest on a database without any point returns the not-found error
\* and no Stop.
C6_NearestEmptyNotFound ==
    (res.op = "Nearest" /\ AllPts(db.routes) = <<>>) =>
        (res.err = "No stop found" /\ res.stop.nil)

\* C6 witness: Nearest ran on a database of routes that are all empty
C6_EmptyRoutesSearched ==
    /\ res.op = "Nearest"
    /\ Len(db.routes) = 2
    /\ AllPts(db.routes) = <<>>
    /\ res.stop.nil

\* C7: the path vector of the record of Route(i) has as many elements as the
\* route has points, and its k-th element read back by Path(obj, k) carries
\* the encoded latitude and longitude of the route's k-th point.
C7_PathKeepsPointOrder ==
    (res.op = "Route" /\ ~res.buf.nil) =>
        LET pts == TrkptOf(db.routes[res.i + 1])
        IN /\ PathLength(res.buf) = Len(pts)
           /\ Len(res.buf.Path) = 1 + 2 * Len(pts)
           /\ \A k \in 0..(Len(pts) - 1) :
                /\ Lat(res.buf, Path(res.buf, k)) = Int32Micro(pts[k + 1].Lat)
                /\ Lon(res.buf, Path(res.buf, k)) = Int32Micro(pts[k + 1].Lon)

\* C7 witness: a route of two points that encode differently was encoded
C7_TwoPointsEncoded ==
    /\ res.op = "Route"
    /\ ~res.buf.nil
    /\ PathLength(res.buf) = 2
    /\ Lat(res.buf, Path(res.buf, 0)) /= Lat(res.buf, Path(res.buf, 1))

\* v is c / 10 rounded to the nearest integer, halves away from zero
IsRounded(v, c) ==
    IF c >= 0 THEN 10 * v - 5 <= c /\ c < 10 * v + 5
    ELSE 10 * v - 5 < c /\ c <= 10 * v + 5

\* v is c / 10 with the fraction dropped
IsTruncated(v, c) ==
    IF c >= 0 THEN 10 * v <= c /\ c < 10 * v + 10
    ELSE 10 * v - 10 < c /\ c <= 10 * v

\* C8 as claimed: every decoded path entry equals round(sourceDegree * 1e6).
C8_PathEntriesRounded ==
    (res.op = "Route" /\ ~res.buf.nil) =>
        LET pts == TrkptOf(db.routes[res.i + 1])
        IN \A k \in 0..(Len(pts) - 1) :
             /\ IsRounded(Lat(res.buf, Path(res.buf, k)), pts[k + 1].Lat)
             /\ IsRounded(Lon(res.buf, Path(res.buf, k)), pts[k + 1].Lon)

\* C8 as amended: every decoded path entry equals sourceDegree * 1e6 with
\* its fraction dropped (truncated towards zero), for positive and negative
\* values alike.
C8_PathEntriesTruncated ==
    (res.op = "Route" /\ ~res.buf.nil) =>
        LET pts == TrkptOf(db.routes[res.i + 1])
        IN \A k \in 0..(Len(pts) - 1) :
             /\ IsTruncated(Lat(res.buf, Path(res.buf, k)), pts[k + 1].Lat)
             /\ IsTruncated(Lon(res.buf, Path(res.buf, k)), pts[k + 1].Lon)

\* C8 witness: a point with a positive and a negative coordinate, with
\* fractions of a half and more, was encoded
C8_FractionsEncoded ==
    /\ res.op = "Route"
    /\ ~res.buf.nil
    /\ PathLength(res.buf) >= 1
    /\ TrkptOf(db.routes[res.i + 1])[1] = Pt(15, -6)
    /\ Lat(res.buf, Path(res.buf, 0)) = 1
    /\ Lon(res.buf, Path(res.buf, 0)) = 0

\* what Load made of the archive
Loaded == Ingest(archive.files, 1, <<>>).routes

\* C9: after a successful Load no call of Nearest, Bounds, Routes or Route
\* changes the route list, the points or the box, so every Bounds() returns
\* the box Load computed and every Nearest the result of the scan of the
\* routes Load ingested, whatever was called before.
C9_QueriesAreReads ==
    [][pc = "loaded" =>
         /\ db' = db
         /\ archive' = archive
         /\ res'.op = "Bounds" => res'.box = ComputeBounds(Loaded)
         /\ res'.op = "Nearest" =>
              /\ res'.stop = NearestOf(Loaded, Pt(res'.lat, res'.lon)).stop
              /\ res'.err = NearestOf(Loaded, Pt(res'.lat, res'.lon)).err
         /\ res'.op = "Routes" => res'.n = Len(Loaded)]_vars

\* C9 witness: Bounds() returned the box of a database of two routes
C9_BoundsAfterQueries ==
    /\ pc = "loaded"
    /\ res.op = "Bounds"
    /\ res.box /= ZeroBox
    /\ Len(db.routes) = 2

Dashes(s) == {k \in 1..Len(s) : s[k] = "-"}

\* C10: of a string with at least two "-", country is the text before the
\* first, city the text between the first and the second, name everything
\* after the second, further "-" included; of a string with fewer, all
\* three are empty.
C10_SplitMd ==
    mdOut.called =>
        IF Cardinality(Dashes(mdIn)) >= 2
        THEN LET p1 == SetMin(Dashes(mdIn))
                 p2 == SetMin(Dashes(mdIn) \ {p1})
             IN /\ mdOut.country = SubSeq(mdIn, 1, p1 - 1)
                /\ mdOut.city = SubSeq(mdIn, p1 + 1, p2 - 1)
                /\ mdOut.name = SubSeq(mdIn, p2 + 1, Len(mdIn))
        ELSE mdOut.country = <<>> /\ mdOut.city = <<>> /\ mdOut.name = <<>>

\* C10 witness: a string with three "-" was split and its name kept one
C10_NameWithDash ==
    /\ mdOut.called
    /\ Cardinality(Dashes(mdIn)) = 3
    /\ Dashes(mdOut.name) /= {}
    /\ mdOut.country /= <<>>

====
